---- MODULE Spec2Model ----
(***************************************************************************)
(* Model of crates/agent_ui: the agent mode policy (agent_modes.rs), the   *)
(* quick-edit selection context (quick_edit.rs) and the token indicators   *)
(* (visual_indicators.rs).                                                 *)
(*                                                                         *)
(* Rust Strings are modelled as sequences of one-character strings, so     *)
(* formatting, suffix matching and line splitting are computed character   *)
(* by character.  Option<T> is [some |-> FALSE] or [some |-> TRUE, val].   *)
(***************************************************************************)
EXTENDS Integers, Sequences, FiniteSets, TLC

\* editor: whether the Entity<Editor> behind the weak handle is still alive
\* buffer, file: the text and the file association of the editor's buffer
\* selection_range, prompt: the fields of the QuickEditState
\* input: the arguments of the pending call of the stateless API
\* call: the last completed call with its result
VARIABLES editor, buffer, file, selection_range, prompt, input, call

vars == <<editor, buffer, file, selection_range, prompt, input, call>>

(* ------------------------------ bounds --------------------------------- *)

\* longest text handed to the token / selection summary functions
MaxTextLen == 8
\* longest buffer held by the editor in the quick-edit specification
MaxBufLen == 3
\* largest zero-based line number of a ContextInfo
MaxLine == 2
\* largest small token count / context window that is enumerated densely
MaxTok == 6
\* longest path enumerated exhaustively over PathAlphabet
MaxPathLen == 2

(* ------------------------------ helpers -------------------------------- *)

None == [some |-> FALSE]

Some(v) == [some |-> TRUE, val |-> v]

Range(s) == {s[i] : i \in 1..Len(s)}

RECURSIVE SeqsUpTo(_, _)
\* all sequences over alphabet A of length at most n
SeqsUpTo(A, n) ==
    IF n = 0 THEN {<<>>}
    ELSE LET shorter == SeqsUpTo(A, n - 1)
         IN shorter \cup {Append(s, a) : s \in {t \in shorter : Len(t) = n - 1}, a \in A}

\* str::ends_with
ends_with(s, suffix) ==
    /\ Len(suffix) <= Len(s)
    /\ SubSeq(s, Len(s) - Len(suffix) + 1, Len(s)) = suffix

\* str::contains
contains(s, pat) ==
    \E i \in 0..(Len(s) - Len(pat)) : SubSeq(s, i + 1, i + Len(pat)) = pat

Digit(d) == CASE d = 0 -> "0" [] d = 1 -> "1" [] d = 2 -> "2" [] d = 3 -> "3"
              [] d = 4 -> "4" [] d = 5 -> "5" [] d = 6 -> "6" [] d = 7 -> "7"
              [] d = 8 -> "8" [] d = 9 -> "9"

RECURSIVE Display(_)
\* the Display ("{}") rendering of an unsigned integer: decimal, no padding
Display(n) == IF n < 10 THEN <<Digit(n)>> ELSE Append(Display(n \div 10), Digit(n % 10))

RECURSIVE join(_, _)
\* [String]::join
join(parts, sep) ==
    IF Len(parts) = 0 THEN <<>>
    ELSE IF Len(parts) = 1 THEN parts[1]
    ELSE parts[1] \o sep \o join(Tail(parts), sep)

(* ------------------------------ agent_modes.rs ------------------------- *)

AgentMode == {"Write", "Ask", "QuickEdit", "Manual"}

\* enabled_tools with the Ask list carrying the edit tool
enabled_tools_ask_edits(mode) ==
    CASE mode = "Write" ->
            <<"read_file", "write_file", "edit_file", "search_files", "run_command", "list_files">>
      [] mode = "Ask" ->
            <<"read_file", "edit_file", "search_files", "list_files", "get_file_outline">>
      [] mode = "QuickEdit" -> <<"read_file", "edit_file", "search_files">>
      [] mode = "Manual" -> <<"read_file", "suggest_edit", "search_files">>

\* enabled_tools with search_files missing from the Write list
enabled_tools_write_no_search(mode) ==
    CASE mode = "Write" ->
            <<"read_file", "write_file", "edit_file", "run_command", "list_files">>
      [] mode = "Ask" -> <<"read_file", "search_files", "list_files", "get_file_outline">>
      [] mode = "QuickEdit" -> <<"read_file", "edit_file", "search_files">>
      [] mode = "Manual" -> <<"read_file", "suggest_edit", "search_files">>

\* enabled_tools with the Manual list applying edits instead of suggesting them
enabled_tools_manual_edits(mode) ==
    CASE mode = "Write" ->
            <<"read_file", "write_file", "edit_file", "search_files", "run_command", "list_files">>
      [] mode = "Ask" -> <<"read_file", "search_files", "list_files", "get_file_outline">>
      [] mode = "QuickEdit" -> <<"read_file", "edit_file", "search_files">>
      [] mode = "Manual" -> <<"read_file", "edit_file", "search_files">>

\* enabled_tools with run_command added to the QuickEdit list
enabled_tools_quick_edit_runs(mode) ==
    CASE mode = "Write" ->
            <<"read_file", "write_file", "edit_file", "search_files", "run_command", "list_files">>
      [] mode = "Ask" -> <<"read_file", "search_files", "list_files", "get_file_outline">>
      [] mode = "QuickEdit" -> <<"read_file", "edit_file", "search_files", "run_command">>
      [] mode = "Manual" -> <<"read_file", "suggest_edit", "search_files">>

enabled_tools(mode) ==
    CASE mode = "Write" ->
            <<"read_file", "write_file", "edit_file", "search_files", "run_command", "list_files">>
      [] mode = "Ask" -> <<"read_file", "search_files", "list_files", "get_file_outline">>
      [] mode = "QuickEdit" -> <<"read_file", "edit_file", "search_files">>
      [] mode = "Manual" -> <<"read_file", "suggest_edit", "search_files">>

(* ------------------------------ quick_edit.rs: ContextInfo ------------- *)

NL == "\n"

\* three backticks (U+0060)
Fence == <<"U+0060", "U+0060", "U+0060">>

FilePrefix == <<"F", "i", "l", "e", ":", " ">>

LinePrefix == <<"L", "i", "n", "e", " ">>

LinesPrefix == <<"L", "i", "n", "e", "s", " ">>

\* the separator literal of ContextInfo::format as the source file holds it:
\* space, U+00E2, U+20AC, U+00A2, space
Separator == <<" ", "U+00E2", "U+20AC", "U+00A2", " ">>

\* format rendering the stored zero-based line numbers unchanged
format_zero_based(ctx) ==
    LET path_part == IF ctx.file_path.some THEN <<FilePrefix \o ctx.file_path.val>> ELSE <<>>
        line_part == IF ctx.start_line = ctx.end_line
                     THEN LinePrefix \o Display(ctx.start_line)
                     ELSE LinesPrefix \o Display(ctx.start_line) \o <<"-">> \o Display(ctx.end_line)
    IN join(Append(path_part, line_part), Separator)

\* ContextInfo::format.  start_line + 1 and end_line + 1 are u32 additions; the
\* line numbers enumerated here stay far below u32::MAX.
format(ctx) ==
    LET path_part == IF ctx.file_path.some THEN <<FilePrefix \o ctx.file_path.val>> ELSE <<>>
        line_part == IF ctx.start_line = ctx.end_line
                     THEN LinePrefix \o Display(ctx.start_line + 1)
                     ELSE LinesPrefix \o Display(ctx.start_line + 1) \o <<"-">>
                              \o Display(ctx.end_line + 1)
    IN join(Append(path_part, line_part), Separator)

Ext_rs == <<".", "r", "s">>
Ext_ts == <<".", "t", "s">>
Ext_tsx == <<".", "t", "s", "x">>
Ext_js == <<".", "j", "s">>
Ext_jsx == <<".", "j", "s", "x">>
Ext_py == <<".", "p", "y">>
Ext_go == <<".", "g", "o">>
Ext_c == <<".", "c">>
Ext_h == <<".", "h">>
Ext_cpp == <<".", "c", "p", "p">>
Ext_cc == <<".", "c", "c">>
Ext_java == <<".", "j", "a", "v", "a">>
Ext_sql == <<".", "s", "q", "l">>

Lang_rust == <<"r", "u", "s", "t">>
Lang_typescript == <<"t", "y", "p", "e", "s", "c", "r", "i", "p", "t">>
Lang_javascript == <<"j", "a", "v", "a", "s", "c", "r", "i", "p", "t">>
Lang_python == <<"p", "y", "t", "h", "o", "n">>
Lang_go == <<"g", "o">>
Lang_c == <<"c">>
Lang_cpp == <<"c", "p", "p">>
Lang_java == <<"j", "a", "v", "a">>
Lang_sql == <<"s", "q", "l">>

\* infer_language with the .h arm dropped from the c branch
infer_language_no_h(ctx) ==
    IF ctx.file_path.some
    THEN LET path == ctx.file_path.val
         IN IF ends_with(path, Ext_rs) THEN Lang_rust
            ELSE IF ends_with(path, Ext_ts) \/ ends_with(path, Ext_tsx) THEN Lang_typescript
            ELSE IF ends_with(path, Ext_js) \/ ends_with(path, Ext_jsx) THEN Lang_javascript
            ELSE IF ends_with(path, Ext_py) THEN Lang_python
            ELSE IF ends_with(path, Ext_go) THEN Lang_go
            ELSE IF ends_with(path, Ext_c) THEN Lang_c
            ELSE IF ends_with(path, Ext_cpp) \/ ends_with(path, Ext_cc) THEN Lang_cpp
            ELSE IF ends_with(path, Ext_java) THEN Lang_java
            ELSE IF ends_with(path, Ext_sql) THEN Lang_sql
            ELSE <<>>
    ELSE <<>>

\* ContextInfo::infer_language
infer_language(ctx) ==
    IF ctx.file_path.some
    THEN LET path == ctx.file_path.val
         IN IF ends_with(path, Ext_rs) THEN Lang_rust
            ELSE IF ends_with(path, Ext_ts) \/ ends_with(path, Ext_tsx) THEN Lang_typescript
            ELSE IF ends_with(path, Ext_js) \/ ends_with(path, Ext_jsx) THEN Lang_javascript
            ELSE IF ends_with(path, Ext_py) THEN Lang_python
            ELSE IF ends_with(path, Ext_go) THEN Lang_go
            ELSE IF ends_with(path, Ext_c) \/ ends_with(path, Ext_h) THEN Lang_c
            ELSE IF ends_with(path, Ext_cpp) \/ ends_with(path, Ext_cc) THEN Lang_cpp
            ELSE IF ends_with(path, Ext_java) THEN Lang_java
            ELSE IF ends_with(path, Ext_sql) THEN Lang_sql
            ELSE <<>>
    ELSE <<>>

\* ContextInfo::format_for_agent
format_for_agent(ctx, code) ==
    LET context == format(ctx)
        first == Fence \o <<NL>> \o context \o <<NL>> \o Fence \o <<NL, NL>>
        language == infer_language(ctx)
    IN first \o (Fence \o language \o <<NL>> \o code \o <<NL>> \o Fence)

(* ------------------------------ visual_indicators.rs ------------------- *)

Max(a, b) == IF a >= b THEN a ELSE b

\* TokenInfo::percentage_used.  The f32 result is kept as the exact fraction
\* num/den; for the token counts enumerated here (below 2^24, windows far
\* below 4.8 million) the f32 comparison against 80.0 and the rounding to
\* whole percents agree with the exact fraction.
percentage_used(info) ==
    IF info.context_window = 0
    THEN [num |-> 0, den |-> 1]
    ELSE [num |-> info.total_tokens * 100, den |-> info.context_window]

\* estimate_tokens_from_text without the .max(1) clamp
estimate_tokens_unclamped(text) == Len(text) \div 4

\* TokenInfo::estimate_tokens_from_text (text.len() is the byte length; the
\* cast to u32 is exact for every length below 2^34)
estimate_tokens_from_text(text) == Max(Len(text) \div 4, 1)

\* the "{:.0}" rendering of a non-negative fraction: nearest integer, ties to even
Fixed0(p) ==
    LET q == p.num \div p.den
        r == p.num % p.den
    IN Display(IF 2 * r > p.den THEN q + 1
               ELSE IF 2 * r = p.den THEN q + (q % 2)
               ELSE q)

\* the warning literal: space, U+26A0, U+FE0F
Warning == <<" ", "U+26A0", "U+FE0F">>

\* format_display warning from 80 percent on instead of above it
token_format_display_ge(info) ==
    LET percentage == percentage_used(info)
        warning == IF percentage.num >= 80 * percentage.den THEN Warning ELSE <<>>
    IN (Display(info.total_tokens) \o <<"/">> \o Display(info.context_window)
           \o <<" ", "t", "o", "k", "e", "n", "s", " ", "(">> \o Fixed0(percentage)
           \o <<"%", ")">>) \o warning

\* TokenInfo::format_display
token_format_display(info) ==
    LET percentage == percentage_used(info)
        warning == IF percentage.num > 80 * percentage.den THEN Warning ELSE <<>>
    IN (Display(info.total_tokens) \o <<"/">> \o Display(info.context_window)
           \o <<" ", "t", "o", "k", "e", "n", "s", " ", "(">> \o Fixed0(percentage)
           \o <<"%", ")">>) \o warning

\* index of the first "\n" of text, 0 when there is none
FirstNewline(text) ==
    IF \E i \in 1..Len(text) : text[i] = NL
    THEN CHOOSE i \in 1..Len(text) : text[i] = NL /\ \A j \in 1..(i - 1) : text[j] # NL
    ELSE 0

\* a line of str::lines() loses one trailing "\r" when it was ended by "\n"
StripCr(line) ==
    IF Len(line) > 0 /\ line[Len(line)] = "\r" THEN SubSeq(line, 1, Len(line) - 1) ELSE line

RECURSIVE split_segments(_)
\* str::split('\n'): every newline-delimited segment, an empty last one included
split_segments(text) ==
    LET nl == FirstNewline(text)
    IN IF nl = 0 THEN <<text>>
       ELSE <<SubSeq(text, 1, nl - 1)>> \o split_segments(SubSeq(text, nl + 1, Len(text)))

RECURSIVE lines(_)
\* str::lines(): the pieces of split_inclusive('\n') without their line ending;
\* the empty text has no line and a final "\n" starts no further line
lines(text) ==
    IF Len(text) = 0 THEN <<>>
    ELSE LET nl == FirstNewline(text)
         IN IF nl = 0 THEN <<text>>
            ELSE <<StripCr(SubSeq(text, 1, nl - 1))>> \o lines(SubSeq(text, nl + 1, Len(text)))

\* from_text counting the chars of the lines instead of the whole text
from_text_line_chars(text) ==
    [char_count |-> Len(join(lines(text), <<>>)),
     line_count |-> Len(lines(text)),
     token_estimate |-> estimate_tokens_from_text(text)]

\* SelectionInfo::from_text
from_text(text) ==
    [char_count |-> Len(text),
     line_count |-> Len(lines(text)),
     token_estimate |-> estimate_tokens_from_text(text)]

(* ------------------------------ quick_edit.rs: QuickEditState ---------- *)

\* the three-way bounds test of selected_text
bounds_rejected(buf, range) ==
    range.start >= Len(buf) \/ range.end > Len(buf) \/ range.start > range.end

\* selected_text returning text although the weak handle no longer upgrades
selected_text_no_upgrade(ed, buf, range) ==
    IF bounds_rejected(buf, range) THEN None
    ELSE Some(SubSeq(buf, range.start + 1, range.end))

\* QuickEditState::selected_text; ed is the outcome of self.editor.upgrade()
selected_text(ed, buf, range) ==
    IF ~ed THEN None
    ELSE IF bounds_rejected(buf, range) THEN None
    ELSE Some(SubSeq(buf, range.start + 1, range.end))

Panic == [some |-> FALSE, panic |-> TRUE]

\* the Point of an offset inside the buffer: row = newlines before the offset,
\* column = distance from the start of that row
PointAt(buf, offset) ==
    LET before == {i \in 1..offset : buf[i] = NL}
        row_start == IF before = {} THEN 0 ELSE CHOOSE i \in before : \A j \in before : j <= i
    IN [row |-> Cardinality(before), column |-> offset - row_start]

\* MultiBufferSnapshot::offset_to_point as called by get_context_info.  For an
\* offset beyond the buffer the callee is free to clamp to the end or to panic;
\* both outcomes are kept.
offset_to_point(buf, offset) ==
    IF offset <= Len(buf) THEN {Some(PointAt(buf, offset))}
    ELSE {Some(PointAt(buf, Len(buf))), Panic}

\* QuickEditState::get_context_info: the set of outcomes; there is no bounds
\* test between the upgrade and the two offset_to_point calls
get_context_info(ed, buf, fl, range) ==
    IF ~ed THEN {None}
    ELSE {IF sp = Panic \/ ep = Panic THEN Panic
          ELSE Some([file_path |-> fl,
                     start_line |-> sp.val.row, end_line |-> ep.val.row,
                     start_column |-> sp.val.column, end_column |-> ep.val.column]) :
            sp \in offset_to_point(buf, range.start), ep \in offset_to_point(buf, range.end)}

(* ------------------------------ inputs --------------------------------- *)

PathAlphabet == {".", "c", "h"}

Stems == {<<>>, <<"a">>, <<"s", "r", "c", "/", "l", "i", "b">>, <<"a", ".", "r", "s">>}

ListedExts == {Ext_rs, Ext_ts, Ext_tsx, Ext_js, Ext_jsx, Ext_py, Ext_go, Ext_c, Ext_h,
               Ext_cpp, Ext_cc, Ext_java, Ext_sql}

\* endings that resemble a listed extension without being one
NearExts == {<<"r", "s">>, <<".", "r", "s", "x">>, <<".", "R", "S">>, <<".", "t", "x", "t">>,
             <<".", "p", "y", "c">>, <<".", "j", "a", "v">>, <<".", "g", "o", ".">>,
             <<".", "s", "q", "l", "x">>}

Paths == SeqsUpTo(PathAlphabet, MaxPathLen) \cup {s \o e : s \in Stems, e \in ListedExts \cup NearExts}

LineNumbers == (0..MaxLine) \cup {5, 9, 10, 42}

ContextInfos ==
    {[file_path |-> fp, start_line |-> sl, end_line |-> el, start_column |-> c[1], end_column |-> c[2]] :
        fp \in {None} \cup {Some(p) : p \in Paths},
        sl \in LineNumbers, el \in LineNumbers, c \in {<<0, 0>>, <<1, 2>>}}

Codes == {<<>>, <<"a", NL, "b">>}

Texts == SeqsUpTo({"a", NL}, MaxTextLen)
            \cup {<<"a", "\r", NL, "b">>, <<"a", "\r", NL>>, <<"\r", NL>>, <<"a", "\r">>}

TokenCounts == (0..MaxTok) \cup {79, 80, 81, 100, 7999, 8000, 8001, 9000, 10000}

TokenInfos ==
    {[selection_tokens |-> s, total_tokens |-> t, context_window |-> w] :
        s \in {0, 100}, t \in TokenCounts, w \in TokenCounts}

(* ------------------------------ state ---------------------------------- *)

NoCall == [op |-> "none"]

Inputs ==
    {[op |-> "enabled_tools", mode |-> m] : m \in AgentMode}
    \cup {[op |-> "format", ctx |-> c] : c \in ContextInfos}
    \cup {[op |-> "infer_language", ctx |-> c] : c \in ContextInfos}
    \cup {[op |-> "format_for_agent", ctx |-> c, code |-> k] : c \in ContextInfos, k \in Codes}
    \cup {[op |-> "percentage_used", info |-> i] : i \in TokenInfos}
    \cup {[op |-> "estimate_tokens_from_text", text |-> t] : t \in Texts}
    \cup {[op |-> "format_display", info |-> i] : i \in TokenInfos}
    \cup {[op |-> "from_text", text |-> t] : t \in Texts}

\* the stateless API: the arguments of one call are drawn, no QuickEditState is involved
Init ==
    /\ editor = TRUE
    /\ buffer = <<>>
    /\ file = None
    /\ selection_range = [start |-> 0, end |-> 0]
    /\ prompt = <<>>
    /\ input \in Inputs
    /\ call = NoCall

Pending(op) == input.op = op /\ call = NoCall

Others == UNCHANGED <<editor, buffer, file, selection_range, prompt, input>>

EnabledTools ==
    /\ Pending("enabled_tools")
    /\ call' = [op |-> "enabled_tools", mode |-> input.mode, result |-> enabled_tools(input.mode)]
    /\ Others

Format ==
    /\ Pending("format")
    /\ call' = [op |-> "format", ctx |-> input.ctx, result |-> format(input.ctx)]
    /\ Others

InferLanguage ==
    /\ Pending("infer_language")
    /\ call' = [op |-> "infer_language", ctx |-> input.ctx, result |-> infer_language(input.ctx)]
    /\ Others

FormatForAgent ==
    /\ Pending("format_for_agent")
    /\ call' = [op |-> "format_for_agent", ctx |-> input.ctx, code |-> input.code,
                result |-> format_for_agent(input.ctx, input.code)]
    /\ Others

PercentageUsed ==
    /\ Pending("percentage_used")
    /\ call' = [op |-> "percentage_used", info |-> input.info,
                result |-> percentage_used(input.info)]
    /\ Others

EstimateTokens ==
    /\ Pending("estimate_tokens_from_text")
    /\ call' = [op |-> "estimate_tokens_from_text", text |-> input.text,
                result |-> estimate_tokens_from_text(input.text)]
    /\ Others

TokenFormatDisplay ==
    /\ Pending("format_display")
    /\ call' = [op |-> "format_display", info |-> input.info,
                result |-> token_format_display(input.info)]
    /\ Others

FromText ==
    /\ Pending("from_text")
    /\ call' = [op |-> "from_text", text |-> input.text, result |-> from_text(input.text)]
    /\ Others

Next ==
    \/ EnabledTools
    \/ Format
    \/ InferLanguage
    \/ FormatForAgent
    \/ PercentageUsed
    \/ EstimateTokens
    \/ TokenFormatDisplay
    \/ FromText

Spec == Init /\ [][Next]_vars

(* ------------------------------ quick-edit specification --------------- *)

Buffers == SeqsUpTo({"a", NL}, MaxBufLen)

Offsets == 0..(MaxBufLen + 1)

\* QuickEditState::new over a live editor: any selection range is accepted,
\* the prompt starts empty
InitQuickEdit ==
    /\ editor = TRUE
    /\ buffer \in Buffers
    /\ file \in {None, Some(<<"a">> \o Ext_rs)}
    /\ selection_range \in [start : Offsets, end : Offsets]
    /\ prompt = <<>>
    /\ input = NoCall
    /\ call = NoCall

\* the owner releases the Entity<Editor>; the QuickEditState keeps a weak handle
DropEditor ==
    /\ editor
    /\ editor' = FALSE
    /\ UNCHANGED <<buffer, file, selection_range, prompt, input, call>>

SelectedText ==
    /\ call' = [op |-> "selected_text", upgraded |-> editor,
                result |-> selected_text(editor, buffer, selection_range)]
    /\ UNCHANGED <<editor, buffer, file, selection_range, prompt, input>>

GetContextInfo ==
    /\ \E r \in get_context_info(editor, buffer, file, selection_range) :
            call' = [op |-> "get_context_info", upgraded |-> editor, result |-> r]
    /\ UNCHANGED <<editor, buffer, file, selection_range, prompt, input>>

NextQuickEdit ==
    \/ DropEditor
    \/ SelectedText
    \/ GetContextInfo

SpecQuickEdit == InitQuickEdit /\ [][NextQuickEdit]_vars

(* ------------------------------ claims --------------------------------- *)

\* the capabilities that mutate the workspace or execute commands
MutatingTools == {"write_file", "edit_file", "run_command"}

ReadTools(tools) == Range(tools) \ MutatingTools

IsCall(op) == call.op = op

\* C1: the Ask tool list holds no mutating or execution capability (none of
\* write_file, edit_file, run_command), and the Write tool list holds both
\* write_file and run_command.
C1_AskReadOnlyWriteFull ==
    /\ (IsCall("enabled_tools") /\ call.mode = "Ask")
            => Range(call.result) \cap MutatingTools = {}
    /\ (IsCall("enabled_tools") /\ call.mode = "Write")
            => {"write_file", "run_command"} \subseteq Range(call.result)

C1_Witness ==
    /\ IsCall("enabled_tools")
    /\ call.mode = "Ask"
    /\ "read_file" \in Range(call.result)

BoundsViolated ==
    \/ selection_range.start > Len(buffer)
    \/ selection_range.end > Len(buffer)
    \/ selection_range.start > selection_range.end

\* C3: get_context_info yields no descriptor when the selection range has
\* start > buffer length, end > buffer length or start > end.
C3_NoDescriptorOutOfBounds ==
    (IsCall("get_context_info") /\ BoundsViolated) => ~call.result.some

\* C4: selected_text on a live editor returns the selected text for every
\* range with start <= end <= buffer length, the zero-length range at the end
\* of the buffer (0..0 on an empty buffer) included.
C4_InBoundsSucceeds ==
    (IsCall("selected_text") /\ call.upgraded /\ ~BoundsViolated)
        => call.result = Some(SubSeq(buffer, selection_range.start + 1, selection_range.end))

C5_Step ==
    /\ ~editor => ~editor'
    /\ selection_range' = selection_range
    /\ prompt' = prompt
    /\ (~editor /\ call' # call) => (call'.result = None /\ ~call'.upgraded)
    /\ (editor /\ call' # call /\ call'.result = None)
            => (call'.op = "selected_text" /\ bounds_rejected(buffer, selection_range))

\* C5: a dropped editor stays dropped; every call of selected_text or
\* get_context_info made after the drop returns None without upgrading the
\* handle; no call changes selection_range or prompt; and a call on a live
\* editor returns None only through the bounds test of selected_text.
C5_DeadHandleGivesNone == [][C5_Step]_vars

C5_Witness ==
    /\ ~editor
    /\ IsCall("get_context_info")
    /\ ~call.upgraded
    /\ call.result = None

\* C6: format renders "Line {start_line+1}" when start_line = end_line and
\* "Lines {start_line+1}-{end_line+1}" otherwise, alone when there is no file
\* path and after "File: {path}" and the separator when there is one.
C6_FormatOneBased ==
    IsCall("format") =>
        LET ctx == call.ctx
            label == IF ctx.start_line = ctx.end_line
                     THEN LinePrefix \o Display(ctx.start_line + 1)
                     ELSE LinesPrefix \o Display(ctx.start_line + 1) \o <<"-">>
                              \o Display(ctx.end_line + 1)
        IN call.result = IF ctx.file_path.some
                         THEN FilePrefix \o ctx.file_path.val \o Separator \o label
                         ELSE label

C6_Witness ==
    /\ IsCall("format")
    /\ call.ctx.file_path.some
    /\ call.ctx.start_line = 5
    /\ call.ctx.end_line = 10
    /\ contains(call.result, LinesPrefix \o <<"6", "-", "1", "1">>)

\* C7: estimate_tokens_from_text(text) is max(1, floor(len(text) / 4)) for
\* every text, the empty one included, and so never below 1.
C7_EstimateIsClampedQuarter ==
    IsCall("estimate_tokens_from_text") =>
        LET len == Len(call.text)
            r == call.result
        IN /\ r >= 1
           /\ len < 4 => r = 1
           /\ len >= 4 => (4 * r <= len /\ len < 4 * (r + 1))

C7_Witness ==
    /\ IsCall("estimate_tokens_from_text")
    /\ call.text = <<>>
    /\ call.result = 1

\* C8: format_display shows total_tokens and context_window and ends with the
\* warning marker exactly when (total_tokens / context_window) * 100 > 80;
\* with context_window = 0 the percentage is 0 and the marker is absent.
C8_WarningAboveEighty ==
    /\ IsCall("format_display") =>
            LET total == call.info.total_tokens
                window == call.info.context_window
            IN /\ ends_with(call.result, Warning) <=> (window # 0 /\ 100 * total > 80 * window)
               /\ contains(call.result, Display(total))
               /\ contains(call.result, Display(window))
    /\ (IsCall("percentage_used") /\ call.info.context_window = 0) => call.result.num = 0

C8_Witness ==
    /\ IsCall("format_display")
    /\ call.info.total_tokens = 9000
    /\ call.info.context_window = 10000
    /\ ends_with(call.result, Warning)

\* the extension table as the specification lists it
ExtensionTable ==
    {<<Ext_rs, Lang_rust>>, <<Ext_ts, Lang_typescript>>, <<Ext_tsx, Lang_typescript>>,
     <<Ext_js, Lang_javascript>>, <<Ext_jsx, Lang_javascript>>, <<Ext_py, Lang_python>>,
     <<Ext_go, Lang_go>>, <<Ext_c, Lang_c>>, <<Ext_h, Lang_c>>, <<Ext_cpp, Lang_cpp>>,
     <<Ext_cc, Lang_cpp>>, <<Ext_java, Lang_java>>, <<Ext_sql, Lang_sql>>}

\* the table entries whose extension ends the file path
Matches(file_path) ==
    IF file_path.some THEN {e \in ExtensionTable : ends_with(file_path.val, e[1])} ELSE {}

\* C9: infer_language yields the language of the listed extension that ends
\* the path and the empty string when the path is absent or ends in no listed
\* extension; format_for_agent closes with the code fence tagged by that value.
C9_InferLanguageIsSuffixTable ==
    /\ IsCall("infer_language") =>
            /\ \A e \in Matches(call.ctx.file_path) : call.result = e[2]
            /\ Matches(call.ctx.file_path) = {} => call.result = <<>>
    /\ IsCall("format_for_agent") =>
            \E lang \in {e[2] : e \in Matches(call.ctx.file_path)}
                         \cup (IF Matches(call.ctx.file_path) = {} THEN {<<>>} ELSE {}) :
                ends_with(call.result, <<NL>> \o Fence \o lang \o <<NL>> \o call.code \o <<NL>> \o Fence)

C9_Witness ==
    /\ IsCall("infer_language")
    /\ call.ctx.file_path = Some(<<"a">> \o Ext_py)
    /\ call.result = Lang_python

\* C10 as stated: char_count is the byte length, line_count the number of
\* newline-delimited segments of the text and token_estimate the token
\* estimate of the same text, also for the empty text and a final newline.
C10_Original ==
    IsCall("from_text") =>
        /\ call.result.char_count = Len(call.text)
        /\ call.result.line_count = Len(split_segments(call.text))
        /\ call.result.token_estimate = estimate_tokens_from_text(call.text)

\* C10 amended: as stated, except that an empty last segment is not counted
\* as a line: the empty text has 0 lines and a final newline adds none.
C10_Amended ==
    IsCall("from_text") =>
        LET segments == split_segments(call.text)
        IN /\ call.result.char_count = Len(call.text)
           /\ call.result.line_count = IF segments[Len(segments)] = <<>>
                                       THEN Len(segments) - 1
                                       ELSE Len(segments)
           /\ call.result.token_estimate = estimate_tokens_from_text(call.text)

C10_Witness ==
    /\ IsCall("from_text")
    /\ call.text = <<"a", NL>>
    /\ call.result.line_count = 1
    /\ call.result.char_count = 2

\* the capabilities that only read the workspace
ReadOnlyTools == {"read_file", "search_files", "list_files", "get_file_outline"}

\* C11: the Manual tool list holds none of write_file, edit_file, run_command,
\* and suggest_edit is its only capability that is not a read capability.
C11_ManualNeverMutates ==
    (IsCall("enabled_tools") /\ call.mode = "Manual")
        => /\ Range(call.result) \cap MutatingTools = {}
           /\ Range(call.result) \ ReadOnlyTools = {"suggest_edit"}

C11_Witness ==
    /\ IsCall("enabled_tools")
    /\ call.mode = "Manual"
    /\ "suggest_edit" \in Range(call.result)

\* C12: the QuickEdit tool list holds edit_file and not run_command, and the
\* tool list of every mode is non-empty.
C12_QuickEditNoExecution ==
    /\ (IsCall("enabled_tools") /\ call.mode = "QuickEdit")
            => /\ "edit_file" \in Range(call.result)
               /\ "run_command" \notin Range(call.result)
    /\ IsCall("enabled_tools") => Len(call.result) > 0

C12_Witness ==
    /\ IsCall("enabled_tools")
    /\ call.mode = "QuickEdit"
    /\ "edit_file" \in Range(call.result)
    /\ Len(call.result) = 3

====
